---- MODULE Spec2Model ----
(***************************************************************************)
(* Block ingestion / confirmation engine of hydb (src/hydb/db/block.py):   *)
(* the poll loop Block.update_task, the tip tracker LocalState, ingestion  *)
(* Block.get / Block.make / Block.on_new_block, the maturity monitor       *)
(* Block.update_confirmations_all and the history hook Block._removed_hist.*)
(* The chain node (db.rpc, db.rpcx), the notifier (db.api) and the address *)
(* registry are the environment: every value they return is an input drawn *)
(* from a small set. The node is read afresh by every call, and its best   *)
(* chain may have grown, shrunk or forked between two calls.               *)
(***************************************************************************)
EXTENDS Integers, Sequences, FiniteSets, TLC

\* ---------------------------------------------------------------- bounds
\* Highest chain height the node ever reports.
MaxHeight == 2
\* Number of rows the block sequence "block_seq" hands out (Blocks ever stored).
MaxPk == 2

\* ------------------------------------------------------ program constants
CONF_MATURE == 501

\* LocalState.hash = "" (no hash recorded)
NoHash == <<>>
\* Python's None
None == [pkid |-> 0]

\* ------------------------------------------------------------ environment
\* An address string is the sequence of its characters; only its length and
\* its identity matter to the code.
MkAddr(n, c) == [i \in 1..n |-> c]

\* Rows of the Addr table (the tracked addresses), each with its base58 form
\* addr_hy and its hex form addr_hx.
Addr ==
    { [pkid |-> 1, addr_hy |-> MkAddr(34, 1), addr_hx |-> MkAddr(40, 1)],
      [pkid |-> 2, addr_hy |-> MkAddr(34, 2), addr_hx |-> MkAddr(40, 2)] }

\* Transaction lists a block may carry: a transaction is the set of address
\* strings schemas.Block.tx_yield_addrs yields for it.
TxLists ==
    { <<>>,
      << {MkAddr(20, 1)} >>,
      << {MkAddr(34, 9), MkAddr(41, 2)} >>,
      << {MkAddr(34, 1)} >>,
      << {MkAddr(20, 1)}, {MkAddr(40, 2), MkAddr(34, 1)} >> }

\* The competing blocks the node may report at one height: the hash of a block is
\* the pair of its height and its fork.
Forks == {1, 2}

\* Confirmation depths db.rpcx.get_block may report for a new block.
IngestConfs == {480, 501}

\* Confirmation depths db.rpc.getblockheader may report for a stored block.
RefreshConfs == {400, 502}

Heights == 1..MaxHeight
Pks == 1..MaxPk

VARIABLES
    blocks,         \* table "block": rows [pkid, height, hash, conf, addr_hist], addr_hist the number of the block's AddrHist rows
    nextPk,         \* sequence block_seq
    LocalHeight,    \* LocalState.height
    LocalHash,      \* LocalState.hash
    pc,             \* position of Block.update_task
    chain_height,   \* Block.update: local chain_height
    chain_hash,     \* Block.update: local chain_hash
    height,         \* Block.update: loop variable of the for loop
    submitted,      \* the heights Block.update has called Block.make for
    notifyCreate,   \* per pkid: sse_block_notify_create attempts
    notifyMature,   \* per pkid: sse_block_notify_mature attempts
    hookMature,     \* per pkid: rounds of AddrHist.on_block_mature over the block's rows
    last            \* what the last step of the poll loop did

vars == << blocks, nextPk, LocalHeight, LocalHash, pc, chain_height,
           chain_hash, height, submitted, notifyCreate, notifyMature,
           hookMature, last >>

\* The hashes db.rpc.getblockhash(h) may answer.
HashesAt(h) == { << h, v >> : v \in Forks }

\* Rows of the table at one height.
AtHeight(store, h) == { b \in store : b.height = h }

\* ---------------------------------------------------------------- ingestion
\* What the environment hands one Block.make call: the answer of
\* db.rpc.getblockhash (rpc_ok: it answers, bhash: the hash), the block detail
\* returned by db.rpcx.get_block (its height, hash, confirmations and
\* transactions), the tracked addresses whose on_block_create adds a history
\* row, and whether the notifier accepts the "block created" notification.
MakeInput(ok, bhash, ih, ihash, c, t, a, n) ==
    [ rpc_ok |-> ok, bhash |-> bhash, info_height |-> ih, info_hash |-> ihash,
      confirmations |-> c, txes |-> t, adds |-> a, notify_ok |-> n ]

\* Block.on_new_block, lines 60-70: the candidate addresses by string length.
addresses_hy(txes) ==
    { a \in UNION { txes[i] : i \in DOMAIN txes } : Len(a) = 34 }

\* Line 66 with "elif len(address) >= 40".
addresses_hx_longer(txes) ==
    { a \in UNION { txes[i] : i \in DOMAIN txes } : Len(a) >= 40 }

addresses_hx(txes) ==
    { a \in UNION { txes[i] : i \in DOMAIN txes } : Len(a) = 40 }

\* Block.on_new_block, lines 77-87: the batched query of the Addr table.
AddrQuery(hy, hx) ==
    { a \in Addr : a.addr_hy \in hy \/ a.addr_hx \in hx }

\* The scan of lines 60-87 for each transaction list, computed once: the two
\* candidate sets and the rows the query returns.
Scan ==
    [ t \in TxLists |->
        [ hy |-> addresses_hy(t), hx |-> addresses_hx(t),
          addrs |-> AddrQuery(addresses_hy(t), addresses_hx(t)) ] ]

\* Addr.on_block_create(block): adds one history row of the address to the
\* block and reports whether it did.
on_block_create(a, inp) == a.pkid \in inp.adds

\* Block.__get_block_info without the comparison of line 249.
InfoMismatch_unchecked(inp, block_height, block_hash) == FALSE

\* Block.__get_block_info, line 249.
InfoMismatch(inp, block_height, block_hash) ==
    inp.info_height # block_height \/ inp.info_hash # block_hash

\* Block.on_new_block: raised (ValueError of __get_block_info), the returned
\* flag, the conf and the history rows set on the block, and the number of
\* db.rpcx.get_tx calls made.
on_new_block(h, bhash, inp) ==
    IF InfoMismatch(inp, h, bhash)
    THEN [ raised |-> TRUE, ret |-> FALSE, conf |-> 0, hist |-> 0, tx_fetches |-> 0 ]
    ELSE IF Scan[inp.txes].hy = {} /\ Scan[inp.txes].hx = {}
    THEN [ raised |-> FALSE, ret |-> FALSE, conf |-> 0, hist |-> 0,
           tx_fetches |-> Len(inp.txes) ]
    ELSE IF Scan[inp.txes].addrs = {}
    THEN [ raised |-> FALSE, ret |-> FALSE, conf |-> 0, hist |-> 0,
           tx_fetches |-> Len(inp.txes) ]
    ELSE LET added == { a \in Scan[inp.txes].addrs : on_block_create(a, inp) }
         IN  [ raised |-> FALSE, ret |-> added # {}, conf |-> inp.confirmations,
               hist |-> Cardinality(added), tx_fetches |-> Len(inp.txes) ]

\* The table's constraints: UniqueConstraint("height", "hash") and hash unique=True.
IntegrityViolation_off(store, new_block) == FALSE

IntegrityViolation(store, new_block) ==
    \/ \E b \in store : b.height = new_block.height /\ b.hash = new_block.hash
    \/ \E b \in store : b.hash = new_block.hash

\* The outcome of one ingestion call: res is "block" (a Block is returned),
\* "none" (None is returned) or "raise" (err is raised to the caller).
Outcome(res, err, block, store, created, fetched_info, tx_fetches, notified) ==
    [ res |-> res, err |-> err, block |-> block, store |-> store, created |-> created,
      fetched_info |-> fetched_info, tx_fetches |-> tx_fetches, notified |-> notified ]

\* Block.make(db, height), with pk the next value of block_seq.
make(store, pk, h, inp) ==
    IF ~inp.rpc_ok
    THEN Outcome("raise", "RPCError", None, store, FALSE, FALSE, 0, FALSE)
    ELSE LET bhash == inp.bhash
             r == on_new_block(h, bhash, inp)
             new_block == [ pkid |-> pk, height |-> h, hash |-> bhash,
                            conf |-> r.conf, addr_hist |-> r.hist ]
         IN  IF r.raised
             THEN Outcome("raise", "ValueError", None, store, FALSE, TRUE, 0, FALSE)
             ELSE IF r.ret
             THEN IF IntegrityViolation(store, new_block)
                  THEN Outcome("raise", "IntegrityError", None, store, FALSE, TRUE,
                               r.tx_fetches, FALSE)
                  ELSE Outcome("block", "", new_block, store \cup {new_block}, TRUE, TRUE,
                               r.tx_fetches, TRUE)
             ELSE Outcome("none", "", None, store, FALSE, TRUE, r.tx_fetches, FALSE)

\* Block.get(db, height, create).
get(store, pk, h, create, inp) ==
    LET rows == AtHeight(store, h)
    IN  IF Cardinality(rows) > 1
        THEN Outcome("raise", "MultipleResultsFound", None, store, FALSE, FALSE, 0, FALSE)
        ELSE IF Cardinality(rows) = 1
        THEN Outcome("block", "", CHOOSE b \in rows : TRUE, store, FALSE, FALSE, 0, FALSE)
        ELSE IF ~create
        THEN Outcome("none", "", None, store, FALSE, FALSE, 0, FALSE)
        ELSE make(store, pk, h, inp)

\* The inputs one Block.make(h) call can read; what the code never reads on a
\* path is fixed to one value.
NoInput == MakeInput(FALSE, NoHash, 0, NoHash, 0, <<>>, {}, TRUE)

MakeInputsAt(h) ==
    LET pks(t) == { a.pkid : a \in Scan[t].addrs }
    IN  { NoInput }
        \cup UNION {
              { MakeInput(TRUE, bhash, h + 1, bhash, 0, <<>>, {}, TRUE),
                MakeInput(TRUE, bhash, h, NoHash, 0, <<>>, {}, TRUE) }
              \cup UNION { IF pks(t) = {}
                           THEN { MakeInput(TRUE, bhash, h, bhash, 0, t, {}, TRUE) }
                           ELSE { MakeInput(TRUE, bhash, h, bhash, 0, t, {}, TRUE) }
                                \cup { MakeInput(TRUE, bhash, h, bhash, c, t, a, n) :
                                         c \in IngestConfs,
                                         a \in (SUBSET pks(t)) \ {{}},
                                         n \in BOOLEAN }
                         : t \in TxLists }
            : bhash \in HashesAt(h) }

MakeInputs == [ h \in Heights |-> MakeInputsAt(h) ]

\* --------------------------------------------------------- maturity monitor
\* What the environment hands one Block.update_confirmations call: whether
\* db.rpc.getblockheader answers, the confirmations it reports, and whether the
\* notifier accepts the "block matured" notification.
ConfInput(ok, c, n) == [ rpc_ok |-> ok, confirmations |-> c, notify_ok |-> n ]

ConfInputs ==
    { ConfInput(FALSE, 400, TRUE) }
    \cup { ConfInput(TRUE, c, TRUE) : c \in RefreshConfs }
    \cup { ConfInput(TRUE, c, FALSE) : c \in { x \in RefreshConfs : x >= CONF_MATURE } }

\* Line 110 with the comparison dropped: every stored block is refreshed.
Immature_always(conf) == TRUE

\* Block.update_confirmations, line 110: the block is still below maturity.
Immature(conf) == conf < CONF_MATURE

\* Block.update_confirmations, line 114: the refreshed depth reaches maturity.
Matures_any(conf) == TRUE

Matures(conf) == conf >= CONF_MATURE

\* The state one maturity pass threads through its blocks.
PassState(store, hook, notify, failed, raised) ==
    [ store |-> store, hook |-> hook, notify |-> notify, failed |-> failed,
      raised |-> raised ]

\* Block.update_confirmations without line 115: the refreshed depth is not stored.
update_confirmations_nostore(st, pk, cin) ==
    LET self == CHOOSE b \in st.store : b.pkid = pk
    IN  IF ~Immature(self.conf)
        THEN st
        ELSE IF ~cin.rpc_ok
        THEN [ st EXCEPT !.raised = TRUE ]
        ELSE IF Matures(cin.confirmations)
        THEN IF self.addr_hist # 0
             THEN [ st EXCEPT
                      !.hook = [ @ EXCEPT ![pk] = @ + 1 ],
                      !.notify = [ @ EXCEPT ![pk] = @ + 1 ],
                      !.failed = IF cin.notify_ok THEN @ ELSE @ \cup {pk} ]
             ELSE [ st EXCEPT !.store = @ \ {self} ]
        ELSE st

\* Block.update_confirmations with the except clause of lines 124-125 removed:
\* a refused "block matured" notification is raised to the pass, after the commit.
update_confirmations_notify_raises(st, pk, cin) ==
    LET self == CHOOSE b \in st.store : b.pkid = pk
    IN  IF ~Immature(self.conf)
        THEN st
        ELSE IF ~cin.rpc_ok
        THEN [ st EXCEPT !.raised = TRUE ]
        ELSE IF Matures(cin.confirmations)
        THEN IF self.addr_hist # 0
             THEN [ st EXCEPT
                      !.store = (@ \ {self}) \cup { [ self EXCEPT !.conf = cin.confirmations ] },
                      !.hook = [ @ EXCEPT ![pk] = @ + 1 ],
                      !.notify = [ @ EXCEPT ![pk] = @ + 1 ],
                      !.failed = IF cin.notify_ok THEN @ ELSE @ \cup {pk},
                      !.raised = ~cin.notify_ok ]
             ELSE [ st EXCEPT !.store = @ \ {self} ]
        ELSE st

\* Block.update_confirmations without the else branch of lines 130-136: a
\* matured block without history rows is hooked and notified like any other.
update_confirmations_no_cleanup(st, pk, cin) ==
    LET self == CHOOSE b \in st.store : b.pkid = pk
    IN  IF ~Immature(self.conf)
        THEN st
        ELSE IF ~cin.rpc_ok
        THEN [ st EXCEPT !.raised = TRUE ]
        ELSE IF Matures(cin.confirmations)
        THEN [ st EXCEPT
                 !.store = (@ \ {self}) \cup { [ self EXCEPT !.conf = cin.confirmations ] },
                 !.hook = [ @ EXCEPT ![pk] = @ + 1 ],
                 !.notify = [ @ EXCEPT ![pk] = @ + 1 ],
                 !.failed = IF cin.notify_ok THEN @ ELSE @ \cup {pk} ]
        ELSE st

\* Block.update_confirmations(self, db) on the stored block with pkid pk.
\* AddrHist.on_block_mature never deletes a row (comment at lines 131-132).
update_confirmations(st, pk, cin) ==
    LET self == CHOOSE b \in st.store : b.pkid = pk
    IN  IF ~Immature(self.conf)
        THEN st
        ELSE IF ~cin.rpc_ok
        THEN [ st EXCEPT !.raised = TRUE ]
        ELSE IF Matures(cin.confirmations)
        THEN IF self.addr_hist # 0
             THEN [ st EXCEPT
                      !.store = (@ \ {self}) \cup { [ self EXCEPT !.conf = cin.confirmations ] },
                      !.hook = [ @ EXCEPT ![pk] = @ + 1 ],
                      !.notify = [ @ EXCEPT ![pk] = @ + 1 ],
                      !.failed = IF cin.notify_ok THEN @ ELSE @ \cup {pk} ]
             ELSE [ st EXCEPT !.store = @ \ {self} ]
        ELSE st

\* The for loop of Block.update_confirmations_all: an exception ends the pass.
RECURSIVE ConfPass(_, _, _)
ConfPass(st, order, cins) ==
    IF order = <<>> \/ st.raised
    THEN st
    ELSE ConfPass(update_confirmations(st, Head(order), cins[Head(order)]),
                  Tail(order), cins)

\* The query of Block.update_confirmations_all: the pkids of the blocks with
\* conf < CONF_MATURE by ascending height; blocks of one height come in any order.
ConfQuery(store) ==
    LET sel == { b \in store : b.conf < CONF_MATURE }
        n == Cardinality(sel)
        hgt(pk) == (CHOOSE b \in sel : b.pkid = pk).height
    IN  { s \in [ 1..n -> { b.pkid : b \in sel } ] :
            /\ \A i, j \in 1..n : i # j => s[i] # s[j]
            /\ \A i, j \in 1..n : i < j => hgt(s[i]) <= hgt(s[j]) }

\* Block._removed_hist(self, db), called after a history row of the block was
\* deleted: the store after it.
removed_hist_keep(store, self) == store

removed_hist(store, self) ==
    IF self.addr_hist = 0 THEN store \ {self} ELSE store

\* UserAddr.addr_hist_del: deletes one history row of the block, then calls the
\* block's _removed_hist hook, in one transaction.
addr_hist_del(store, b) ==
    LET self == [ b EXCEPT !.addr_hist = @ - 1 ]
    IN  removed_hist((store \ {b}) \cup {self}, self)

\* ------------------------------------------------------------ bookkeeping
\* The record of the last step of the poll loop: which operation, for which
\* height, whether a Block of that height was stored when it was called, how it
\* ended, which chain-client fetches and notifications it made, and whether the
\* store changed.
NoOp ==
    [ op |-> "none", height |-> 0, existed |-> FALSE, res |-> "",
      err |-> "", pk |-> 0, fetched_info |-> FALSE, fetched_tx |-> FALSE,
      changed |-> FALSE, matched |-> FALSE, added |-> FALSE, notify_ok |-> TRUE,
      failed |-> {} ]

IngestNote(op, h, store, r, inp) ==
    LET looked == r.fetched_info /\ ~InfoMismatch(inp, h, inp.bhash)
    IN  [ NoOp EXCEPT
            !.op = op, !.height = h,
            !.existed = AtHeight(store, h) # {},
            !.res = r.res, !.err = r.err, !.pk = r.block.pkid,
            !.fetched_info = r.fetched_info, !.fetched_tx = r.tx_fetches > 0,
            !.changed = r.store # store,
            !.matched = looked /\ Scan[inp.txes].addrs # {},
            !.added = looked /\ \E a \in Scan[inp.txes].addrs : on_block_create(a, inp),
            !.notify_ok = IF r.notified THEN inp.notify_ok ELSE TRUE ]

\* Block.make without lines 185-190: no "block created" notification is sent.
Ingested_silent(r) ==
    /\ r.created => nextPk <= MaxPk
    /\ blocks' = r.store
    /\ nextPk' = IF r.created THEN nextPk + 1 ELSE nextPk
    /\ notifyCreate' = notifyCreate

\* The effect of an ingestion outcome on the store, the sequence and the notifier.
Ingested(r) ==
    /\ r.created => nextPk <= MaxPk
    /\ blocks' = r.store
    /\ nextPk' = IF r.created THEN nextPk + 1 ELSE nextPk
    /\ notifyCreate' = IF r.notified
                       THEN [ notifyCreate EXCEPT ![r.block.pkid] = @ + 1 ]
                       ELSE notifyCreate

\* ---------------------------------------------------------------- actions
Init ==
    /\ blocks = {}
    /\ nextPk = 1
    /\ LocalHeight = 0
    /\ LocalHash = NoHash
    /\ pc = "init"
    /\ chain_height = 0
    /\ chain_hash = NoHash
    /\ height = 0
    /\ submitted = {}
    /\ notifyCreate = [ k \in Pks |-> 0 ]
    /\ notifyMature = [ k \in Pks |-> 0 ]
    /\ hookMature = [ k \in Pks |-> 0 ]
    /\ last = NoOp

\* Block.update_task has not ended: the model follows the system until the poll
\* loop ends.
Running == pc \in { "init", "conf_all", "update", "make_each", "sleep" }

\* Block.update_task without the call of line 200: the Tip Tracker is not seeded.
UpdateInit_noseed ==
    /\ pc = "init"
    /\ pc' = "conf_all"
    /\ last' = [ NoOp EXCEPT !.op = "init" ]
    /\ UNCHANGED << blocks, nextPk, LocalHeight, LocalHash, chain_height, chain_hash,
                    height, submitted, notifyCreate, notifyMature, hookMature >>

\* Block.__update_init(db).
UpdateInit ==
    /\ pc = "init"
    /\ IF blocks # {}
       THEN \E block \in blocks :
              /\ \A b \in blocks : b.height <= block.height
              /\ LocalHeight' = block.height
              /\ LocalHash' = block.hash
       ELSE \E getblockcount \in Heights :
              /\ LocalHeight' = IF LocalHeight = 0 THEN getblockcount - 1 ELSE LocalHeight
              /\ LocalHash' = LocalHash
    /\ pc' = "conf_all"
    /\ last' = [ NoOp EXCEPT !.op = "init" ]
    /\ UNCHANGED << blocks, nextPk, chain_height, chain_hash, height,
                    submitted, notifyCreate, notifyMature, hookMature >>

\* Block.update_confirmations_all(db), one whole pass.
UpdateConfirmationsAll ==
    /\ pc = "conf_all"
    /\ \E order \in ConfQuery(blocks) :
         \E cins \in [ { order[i] : i \in DOMAIN order } -> ConfInputs ] :
           LET st == ConfPass(PassState(blocks, hookMature, notifyMature, {}, FALSE),
                              order, cins)
           IN  /\ blocks' = st.store
               /\ hookMature' = st.hook
               /\ notifyMature' = st.notify
               /\ pc' = IF st.raised THEN "raised" ELSE "update"
               /\ last' = [ NoOp EXCEPT
                              !.op = "conf_all",
                              !.res = IF st.raised THEN "raise" ELSE "none",
                              !.err = IF st.raised THEN "RPCError" ELSE "",
                              !.changed = st.store # blocks,
                              !.failed = st.failed ]
    /\ UNCHANGED << nextPk, LocalHeight, LocalHash, chain_height,
                    chain_hash, height, submitted, notifyCreate >>

\* Block.update, lines 233-237: the heights are equal and no fork is seen, so
\* Block.update returns at once.
EarlyReturn_always(ch, chh) == ch = LocalHeight

EarlyReturn(ch, chh) ==
    ch = LocalHeight /\ ~(LocalHash # NoHash /\ chh # LocalHash)

\* Block.update, lines 239-240: nothing in the for loop catches an exception of
\* Block.make, so it leaves the loop and Block.update.
Propagates_caught(r) == FALSE

Propagates(r) == r.res = "raise"

\* Block.update, lines 242-243: the Tip Tracker is set to the tip read at the
\* start of the pass.
TipAssign_height_only(ch, chh) == LocalHeight' = ch /\ LocalHash' = LocalHash

TipAssign(ch, chh) == LocalHeight' = ch /\ LocalHash' = chh

\* Block.update(db) up to its for loop: lines 228-237, and lines 242-243 when
\* the range of the loop is empty.
UpdateBegin ==
    /\ pc = "update"
    /\ \E ch \in Heights : \E chh \in HashesAt(ch) :
         LET fork == ch = LocalHeight /\ LocalHash # NoHash /\ chh # LocalHash
         IN
           /\ last' = [ NoOp EXCEPT !.op = "update",
                                    !.res = IF fork THEN "fork_warning" ELSE "none" ]
           /\ IF EarlyReturn(ch, chh)
              THEN /\ pc' = "sleep"
                   /\ UNCHANGED << LocalHeight, LocalHash, chain_height, chain_hash, height >>
              ELSE IF LocalHeight + 1 > ch
              THEN /\ TipAssign(ch, chh)
                   /\ pc' = "sleep"
                   /\ UNCHANGED << chain_height, chain_hash, height >>
              ELSE /\ chain_height' = ch
                   /\ chain_hash' = chh
                   /\ height' = LocalHeight + 1
                   /\ pc' = "make_each"
                   /\ UNCHANGED << LocalHeight, LocalHash >>
    /\ UNCHANGED << blocks, nextPk, submitted, notifyCreate,
                    notifyMature, hookMature >>

\* One iteration of the for loop of Block.update (line 240), and lines 242-243
\* after the last one. An exception of Block.make leaves Block.update and, as
\* Block.update_task catches KeyboardInterrupt only, the poll loop.
UpdateMake ==
    /\ pc = "make_each"
    /\ \E inp \in MakeInputs[height] :
         LET r == make(blocks, nextPk, height, inp)
         IN  /\ Ingested(r)
             /\ last' = IngestNote("make", height, blocks, r, inp)
             /\ submitted' = submitted \cup {height}
             /\ IF Propagates(r)
                THEN /\ pc' = "raised"
                     /\ chain_height' = 0 /\ chain_hash' = NoHash /\ height' = 0
                     /\ UNCHANGED << LocalHeight, LocalHash >>
                ELSE IF height = chain_height
                THEN /\ TipAssign(chain_height, chain_hash)
                     /\ pc' = "sleep"
                     /\ chain_height' = 0 /\ chain_hash' = NoHash /\ height' = 0
                ELSE /\ height' = height + 1
                     /\ UNCHANGED << LocalHeight, LocalHash, pc, chain_height, chain_hash >>
    /\ UNCHANGED << notifyMature, hookMature >>

\* time.sleep(15) of Block.update_task returns.
Sleep ==
    /\ pc = "sleep"
    /\ pc' = "conf_all"
    /\ UNCHANGED << blocks, nextPk, LocalHeight, LocalHash, chain_height,
                    chain_hash, height, submitted, notifyCreate, notifyMature,
                    hookMature, last >>

\* KeyboardInterrupt reaches Block.update_task (lines 207-208).
Cancel ==
    /\ Running
    /\ pc' = "cancelled"
    /\ chain_height' = 0 /\ chain_hash' = NoHash /\ height' = 0
    /\ UNCHANGED << blocks, nextPk, LocalHeight, LocalHash, 
                    submitted, notifyCreate, notifyMature, hookMature, last >>

\* A caller outside the poll loop calls Block.get(db, height, create).
ApiGet ==
    /\ Running
    /\ \E h \in Heights, create \in BOOLEAN :
         \E inp \in IF create /\ AtHeight(blocks, h) = {}
                    THEN MakeInputs[h]
                    ELSE { NoInput } :
           LET r == get(blocks, nextPk, h, create, inp)
           IN  Ingested(r)
    /\ UNCHANGED << last, LocalHeight, LocalHash, pc, chain_height, chain_hash,
                    height, submitted, notifyMature, hookMature >>

\* A history row of a stored block is deleted (crud.user_addr_hist_del).
HistDel ==
    /\ Running
    /\ \E b \in blocks :
         /\ b.addr_hist > 0
         /\ blocks' = addr_hist_del(blocks, b)
    /\ UNCHANGED << last, nextPk, LocalHeight, LocalHash, pc, chain_height,
                    chain_hash, height, submitted, notifyCreate, notifyMature,
                    hookMature >>

Next ==
    \/ UpdateInit
    \/ UpdateConfirmationsAll
    \/ UpdateBegin
    \/ UpdateMake
    \/ Sleep
    \/ Cancel
    \/ ApiGet
    \/ HistDel

Spec == Init /\ [][Next]_vars

\* ------------------------------------------------------------------ claims
\* A step of the for loop of Block.update (one Block.make call of the poll loop).
PollMakeStep ==
    pc = "make_each" /\ pc' # "cancelled" /\ (pc' # pc \/ height' # height)

\* A whole maturity pass.
ConfPassStep == pc = "conf_all" /\ pc' \in { "update", "raised" }

\* A Block.update call up to its for loop.
UpdateBeginStep == pc = "update" /\ pc' \in { "sleep", "make_each" }

\* C1: every stored Block has at least one AddrHist row, after ingestion,
\* maturity passes and history-row deletion followed by _removed_hist.
C1_EveryBlockHasHistory == \A b \in blocks : b.addr_hist >= 1

\* C1 witness: two Blocks were ingested, one lost its last history row and went
\* with it, the other was promoted by a maturity pass and still has a row.
C1_Witness ==
    /\ nextPk = 3
    /\ Cardinality(blocks) = 1
    /\ \E b \in blocks : b.addr_hist = 1 /\ hookMature[b.pkid] = 1

\* C2 (as claimed): over any sequence of observed tips no height is submitted
\* to ingestion twice, and whenever the Tip Tracker's height rises every height
\* it passes has been submitted.
C2_NoHeightLostOrTwice ==
    [][ /\ PollMakeStep => height \notin submitted
        /\ (pc # "init" /\ LocalHeight' > LocalHeight)
             => \A h \in (LocalHeight + 1)..LocalHeight' : h \in submitted' ]_vars

\* C3 (as claimed): ingestion invoked for a height whose Block is stored, by
\* the poll loop or by Block.get, returns the stored Block, fetches neither
\* block detail nor transaction detail and leaves the store as it was.
C3_IngestionIdempotent ==
    /\ (last.op = "make" /\ last.existed)
         => /\ last.res = "block"
            /\ ~last.fetched_info /\ ~last.fetched_tx /\ ~last.changed
    /\ \A h \in Heights :
         AtHeight(blocks, h) # {}
           => LET r == get(blocks, nextPk, h, TRUE, NoInput)
              IN  /\ r.res = "block" /\ r.block \in blocks
                  /\ ~r.fetched_info /\ r.tx_fetches = 0 /\ r.store = blocks

\* C4: no two stored Blocks have the same (height, hash) pair.
C4_UniqueHeightHash ==
    \A b1, b2 \in blocks :
      (b1.height = b2.height /\ b1.hash = b2.hash) => b1 = b2

\* C4 witness: the poll loop ingested a block whose (height, hash) is stored
\* already and the table refused it.
C4_Witness ==
    /\ last.op = "make" /\ last.err = "IntegrityError"
    /\ blocks # {}

\* C5: over every step, and so over every maturity pass whatever depth the node
\* reports, a stored Block's conf does not decrease, and does not change once it
\* is CONF_MATURE or more.
C5_ConfMonotone ==
    [][ \A b \in blocks : \A c \in blocks' :
          c.pkid = b.pkid
            => /\ c.conf >= b.conf
               /\ b.conf >= CONF_MATURE => c.conf = b.conf ]_vars

\* C5 witness: a maturity pass ran to its end over a Block stored with conf 480;
\* the node reported a lower depth for it and the Block kept its conf.
C5_Witness ==
    /\ last.op = "conf_all" /\ last.res = "none" /\ ~last.changed
    /\ \E b \in blocks : b.conf = 480
    /\ \A c \in RefreshConfs : c < CONF_MATURE => c < 480

\* C6: the maturity hook and the "block matured" notification run at most once
\* per Block, only in a pass that finds conf < CONF_MATURE stored and a refreshed
\* depth >= CONF_MATURE, which that pass stores; later passes leave the Block,
\* its hook and its notification alone.
C6_MatureOnce ==
    [][ /\ \A k \in Pks :
             (hookMature'[k] # hookMature[k] \/ notifyMature'[k] # notifyMature[k])
               => /\ ConfPassStep
                  /\ hookMature[k] = 0 /\ notifyMature[k] = 0
                  /\ hookMature'[k] = 1 /\ notifyMature'[k] = 1
                  /\ \E b \in blocks : \E c \in blocks' :
                       /\ b.pkid = k /\ c.pkid = k
                       /\ b.conf < CONF_MATURE
                       /\ c.conf >= CONF_MATURE /\ c.conf \in RefreshConfs
                       /\ c = [ b EXCEPT !.conf = c.conf ]
        /\ ConfPassStep
             => \A b \in blocks : b.conf >= CONF_MATURE => b \in blocks' ]_vars

\* C6 witness: a Block was promoted by one pass (hook and notification once,
\* the refreshed depth stored) and a later pass left the store as it was.
C6_Witness ==
    /\ last.op = "conf_all" /\ last.res = "none" /\ ~last.changed
    /\ \E b \in blocks :
         /\ b.conf = 502
         /\ hookMature[b.pkid] = 1 /\ notifyMature[b.pkid] = 1

\* The step in which Block.update sees a fork: equal heights, a recorded hash
\* and another hash on the chain.
ForkStep == UpdateBeginStep /\ last'.res = "fork_warning"

\* C7 (as claimed): on a fork Block.update warns, raises nothing, ingests no
\* height and leaves the Tip Tracker's height and hash as they were.
C7_ForkLeavesTip ==
    [][ ForkStep
          => /\ pc' = "sleep"
             /\ blocks' = blocks /\ submitted' = submitted
             /\ LocalHeight' = LocalHeight
             /\ LocalHash' = LocalHash ]_vars

\* C7 (amended): on a fork Block.update warns, raises nothing, ingests no
\* height and leaves the Tip Tracker's height, but replaces the Tip Tracker's
\* hash by the hash seen on the chain.
C7_ForkReplacesHash ==
    [][ ForkStep
          => /\ pc' = "sleep"
             /\ blocks' = blocks /\ submitted' = submitted
             /\ LocalHeight' = LocalHeight
             /\ LocalHash' # LocalHash
             /\ LocalHash' \in HashesAt(LocalHeight) ]_vars

\* C7 witness: Block.update has just warned of a fork.
C7_Witness ==
    /\ pc = "sleep" /\ last.op = "update" /\ last.res = "fork_warning"
    /\ LocalHash # NoHash

C9_EndsOnCancelOnly == ~Running => pc = "cancelled"

\* C10 (as claimed): a Block.make call whose fetches succeed stores a Block and
\* returns it exactly when a tracked address matches and a hook reports an
\* added row; otherwise it returns None and leaves the store as it was.
C10_MakeIffMatchedAndAdded ==
    (last.op = "make" /\ last.fetched_info /\ last.err # "ValueError")
      => /\ (last.res = "block" /\ last.changed) <=> (last.matched /\ last.added)
         /\ ~(last.matched /\ last.added) => (last.res = "none" /\ ~last.changed)

\* The last Block.make call of a pass of Block.update returned and the pass
\* ended: lines 242-243 were reached after a non-empty loop.
PassCompleteStep == PollMakeStep /\ pc' = "sleep"

\* C11: when Block.update completes a pass with chain_height > LocalState.height,
\* the Tip Tracker is the (chain_height, chain_hash) read at the start of the
\* pass, whatever the Block.make calls of the pass stored or discarded, and
\* every height of the pass was submitted.
C11_TipIsObservedTip ==
    [][ /\ (UpdateBeginStep /\ pc' = "make_each")
             => /\ chain_height' > LocalHeight /\ chain_hash' \in HashesAt(chain_height')
                /\ height' = LocalHeight + 1
                /\ LocalHeight' = LocalHeight /\ LocalHash' = LocalHash
        /\ PassCompleteStep
             => /\ chain_height > LocalHeight
                /\ LocalHeight' = chain_height /\ LocalHash' = chain_hash
                /\ \A h \in (LocalHeight + 1)..chain_height : h \in submitted' ]_vars

\* C11 witness: a pass from tip 0 to tip 2 discarded both heights; nothing is
\* stored and the Tip Tracker is the tip of height 2.
C11_Witness ==
    /\ pc = "sleep" /\ last.op = "make" /\ last.res = "none" /\ last.height = 2
    /\ blocks = {} /\ nextPk = 1
    /\ submitted = {1, 2}
    /\ LocalHeight = 2 /\ LocalHash \in HashesAt(2)

\* C12: a refused "block created" or "block matured" notification changes no
\* committed state and is not raised. After a refused "created" notification
\* Block.make returns the Block, which is stored with its history rows, and
\* Block.update goes on with the next height. A maturity pass keeps the promoted
\* Block of every refused "matured" notification, with its rows and the
\* refreshed confirmations; update_confirmations applied to any stored Block
\* with a refused notification does not raise and leaves the store it would
\* leave had the notification been accepted.
C12_NotifyFailureHarmless ==
    [][ /\ (PollMakeStep /\ ~last'.notify_ok)
             => /\ last'.res = "block"
                /\ \E b \in blocks' \ blocks : b.pkid = last'.pk /\ b.addr_hist >= 1
                /\ pc' # "raised"
                /\ height < chain_height => (pc' = "make_each" /\ height' = height + 1)
        /\ ConfPassStep
             => \A k \in last'.failed :
                  \E b \in blocks : \E c \in blocks' :
                    /\ b.pkid = k /\ c = [ b EXCEPT !.conf = c.conf ]
                    /\ c.conf >= CONF_MATURE /\ c.addr_hist >= 1
        /\ \A b \in blocks : \A cin \in ConfInputs :
             (cin.rpc_ok /\ ~cin.notify_ok)
               => LET st == PassState(blocks, hookMature, notifyMature, {}, FALSE)
                      refused == update_confirmations(st, b.pkid, cin)
                      accepted == update_confirmations(st, b.pkid,
                                                       [ cin EXCEPT !.notify_ok = TRUE ])
                  IN  ~refused.raised /\ refused.store = accepted.store ]_vars

\* C12 witness: a maturity pass ran to its end; the "matured" notification of
\* the Block of height 1 was refused, that Block is stored promoted with its
\* row, and the Block of height 2 after it in the pass was promoted too.
C12_Witness ==
    /\ last.op = "conf_all" /\ last.res = "none" /\ last.changed
    /\ \E b1, b2 \in blocks :
         /\ b1.height = 1 /\ b2.height = 2
         /\ last.failed = { b1.pkid }
         /\ b1.conf >= CONF_MATURE /\ b1.addr_hist >= 1 /\ hookMature[b1.pkid] = 1
         /\ b2.conf \in RefreshConfs /\ b2.conf >= CONF_MATURE /\ notifyMature[b2.pkid] = 1

\* C13: a "block created" notification is attempted exactly once for each
\* Block ingestion stores, in the step that commits the Block and not before,
\* and never by a call that discards its block or raises: the attempts of a
\* pkid are 1 if the sequence has handed it to a stored Block and 0 otherwise,
\* and they change only in a step that adds the Block of that pkid to the store.
C13_CreateNotifiedOnce ==
    [][ /\ \A k \in Pks : notifyCreate[k] = (IF k < nextPk THEN 1 ELSE 0)
        /\ \A k \in Pks :
             notifyCreate'[k] # notifyCreate[k]
               => /\ notifyCreate[k] = 0 /\ notifyCreate'[k] = 1
                  /\ \E b \in blocks' \ blocks : b.pkid = k /\ b.addr_hist >= 1
                  /\ \A j \in Pks \ {k} : notifyCreate'[j] = notifyCreate[j]
        /\ \A b \in blocks' \ blocks :
             (\A c \in blocks : c.pkid # b.pkid) => notifyCreate'[b.pkid] = 1
        /\ (PollMakeStep /\ last'.res # "block") => notifyCreate' = notifyCreate ]_vars

\* C13 witness: the poll loop stored one Block and notified it once, then
\* discarded the block of the next height without a notification.
C13_Witness ==
    /\ last.op = "make" /\ last.res = "none" /\ last.height = 2
    /\ nextPk = 2 /\ notifyCreate[1] = 1 /\ notifyCreate[2] = 0
    /\ \E b \in blocks : b.pkid = 1 /\ b.height = 1
    /\ submitted = {1, 2}

\* The address strings of a transaction list (schemas.Block.tx_yield_addrs over
\* its transactions).
TxAddrs(txes) == UNION { txes[i] : i \in DOMAIN txes }

\* The step of Block.make with block detail (h, bhash) and transaction list t.
ScanInput(h, bhash, t) == MakeInput(TRUE, bhash, h, bhash, 0, t, {}, TRUE)

\* C14: for every transaction list Block.make can be handed in the current
\* state, on_new_block puts an address string in the base58 candidate set iff
\* its length is 34, in the hex candidate set iff its length is 40, in neither
\* set for any other length, and does not raise.
C14_ClassifiedByLength ==
    \A t \in TxLists :
      /\ \A a \in TxAddrs(t) :
           /\ a \in addresses_hy(t) <=> Len(a) = 34
           /\ a \in addresses_hx(t) <=> Len(a) = 40
           /\ Len(a) \notin {34, 40} => a \notin addresses_hy(t) \cup addresses_hx(t)
      /\ addresses_hy(t) \cup addresses_hx(t) \subseteq TxAddrs(t)
      /\ Scan[t].hy = addresses_hy(t) /\ Scan[t].hx = addresses_hx(t)
      /\ \A h \in Heights : \A bhash \in HashesAt(h) :
           LET r == make(blocks, nextPk, h, ScanInput(h, bhash, t))
           IN  r.err \notin { "ValueError", "RPCError" } /\ r.tx_fetches = Len(t)

\* C14 witness: the poll loop scanned a block with transactions and found no
\* tracked address in it; every such transaction list carries an address of a
\* length other than 34 and 40, some of them next to one of length 34.
C14_Witness ==
    /\ last.op = "make" /\ last.res = "none" /\ last.fetched_tx /\ ~last.matched
    /\ \A t \in TxLists :
         (Len(t) > 0 /\ Scan[t].addrs = {})
           => \E a \in TxAddrs(t) : Len(a) \notin {34, 40}
    /\ \E t \in TxLists :
         /\ Len(t) > 0 /\ Scan[t].addrs = {}
         /\ \E a, b \in TxAddrs(t) : Len(a) = 34 /\ Len(b) \notin {34, 40}

\* The answers to one Block.make(h) call in which db.rpcx.get_block reports
\* another height or another hash than the one asked for.
MismatchedInputs ==
    [ h \in Heights |->
        { inp \in MakeInputs[h] :
            inp.rpc_ok /\ (inp.info_height # h \/ inp.info_hash # inp.bhash) } ]

\* C15: when the block detail fetched for the requested (height, hash) reports
\* another height or another hash, Block.make raises ValueError to its caller,
\* fetches no transaction detail, sends no notification and leaves the store,
\* the sequence and the history rows as they were; in the poll loop the error
\* reaches Block.update.
C15_MismatchAborts ==
    [][ /\ \A h \in Heights :
             /\ MismatchedInputs[h] # {}
             /\ \A inp \in MismatchedInputs[h] :
                  LET r == make(blocks, nextPk, h, inp)
                  IN  /\ r.res = "raise" /\ r.err = "ValueError"
                      /\ r.fetched_info /\ r.tx_fetches = 0
                      /\ ~r.notified /\ ~r.created
                      /\ r.store = blocks
        /\ (PollMakeStep /\ last'.err = "ValueError")
             => /\ last'.res = "raise" /\ ~last'.fetched_tx
                /\ blocks' = blocks /\ nextPk' = nextPk
                /\ notifyCreate' = notifyCreate
                /\ pc' = "raised" ]_vars

\* C15 witness: with a Block stored, the poll loop asked for the block of
\* another height, the detail did not match and the call raised before any
\* transaction was fetched.
C15_Witness ==
    /\ last.op = "make" /\ last.err = "ValueError" /\ last.res = "raise"
    /\ last.fetched_info /\ ~last.fetched_tx /\ ~last.existed /\ ~last.changed
    /\ blocks # {} /\ \A b \in blocks : notifyCreate[b.pkid] = 1

\* C16: update_confirmations leaves a stored Block whose refreshed depth is
\* below CONF_MATURE as it is (conf not overwritten, no hook, no notification,
\* nothing stored), and neither the query of a pass nor update_confirmations
\* fetches anything for a Block whose conf is CONF_MATURE or more: whatever the
\* node would answer, failure included, the call changes nothing. Over a whole
\* pass a Block that is still stored below CONF_MATURE has its conf, hook and
\* notification as before.
C16_ImmatureUntouched ==
    [][ /\ \A b \in blocks : \A cin \in ConfInputs :
             LET st == PassState(blocks, hookMature, notifyMature, {}, FALSE)
                 r == update_confirmations(st, b.pkid, cin)
             IN  /\ (b.conf < CONF_MATURE /\ cin.rpc_ok /\ cin.confirmations < CONF_MATURE)
                      => r = st
                 /\ b.conf >= CONF_MATURE => r = st
        /\ \A order \in ConfQuery(blocks) : \A i \in DOMAIN order :
             \A b \in blocks : b.pkid = order[i] => b.conf < CONF_MATURE
        /\ ConfPassStep
             => \A b \in blocks : \A c \in blocks' :
                  (c.pkid = b.pkid /\ c.conf < CONF_MATURE)
                    => /\ c = b
                       /\ hookMature'[b.pkid] = hookMature[b.pkid]
                       /\ notifyMature'[b.pkid] = notifyMature[b.pkid] ]_vars

\* C16 witness: a pass ran to its end over a Block stored with conf 480 and a
\* Block ingested with conf 501; the refreshed depth of the first was below
\* CONF_MATURE, and neither was changed, hooked or notified.
C16_Witness ==
    /\ pc = "update" /\ last.op = "conf_all" /\ last.res = "none" /\ ~last.changed
    /\ \E b, c \in blocks :
         /\ b.conf = 480 /\ hookMature[b.pkid] = 0 /\ notifyMature[b.pkid] = 0
         /\ c.conf = 501 /\ hookMature[c.pkid] = 0 /\ notifyMature[c.pkid] = 0
    /\ \E cin \in ConfInputs : cin.rpc_ok /\ cin.confirmations < CONF_MATURE

\* The step of Block.__update_init.
UpdateInitStep == pc = "init" /\ pc' = "conf_all"

\* C17: Block.__update_init runs once, before the first iteration, and sets
\* the Tip Tracker to the (height, hash) of a highest stored Block when the
\* store is not empty and to (live chain height - 1, "") when it is empty.
\* Nothing changes the Tip Tracker between that and Block.update, whose loop
\* starts at the height after the Tip Tracker's and calls Block.make for the
\* heights up to the tip it read, one after the other.
C17_InitSeedsTip ==
    [][ /\ UpdateInitStep
             => IF blocks # {}
                THEN \E b \in blocks :
                       /\ \A c \in blocks : c.height <= b.height
                       /\ LocalHeight' = b.height /\ LocalHash' = b.hash
                ELSE /\ LocalHeight' \in { getblockcount - 1 : getblockcount \in Heights }
                     /\ LocalHash' = NoHash
        /\ pc' = "init" => pc = "init"
        /\ pc = "init" => (LocalHeight = 0 /\ LocalHash = NoHash /\ submitted = {})
        /\ pc \in { "conf_all", "sleep" }
             => (LocalHeight' = LocalHeight /\ LocalHash' = LocalHash)
        /\ (UpdateBeginStep /\ pc' = "make_each")
             => (height' = LocalHeight + 1 /\ chain_height' >= height')
        /\ PollMakeStep
             => /\ LocalHeight < height /\ height <= chain_height
                /\ submitted' = submitted \cup {height}
                /\ pc' = "make_each" => (height' = height + 1 /\ height' <= chain_height)
                /\ pc' = "sleep" => height = chain_height ]_vars

\* C17 witness: the store was empty at initialization with the chain at height
\* 2; the Tip Tracker is (1, "") and the first Block.update is about to ingest
\* height 2, the only height above the seed up to the tip.
C17_Witness ==
    /\ pc = "make_each" /\ last.op = "update"
    /\ LocalHeight = 1 /\ LocalHash = NoHash
    /\ height = 2 /\ chain_height = 2
    /\ submitted = {} /\ blocks = {}

\* ------------------------------------------------- stores found at start
\* The tables persist between runs and the AddrHist rows belong to the address
\* subsystem, so Block.update_task may find Blocks it did not store in this
\* run: the Block of pkid 1 at height 1 without a history row, alone or with
\* the Block of pkid 2 at height 2.
StoredBlocks(k, hists) ==
    { [ pkid |-> k, height |-> k, hash |-> bhash, conf |-> c, addr_hist |-> n ] :
        bhash \in HashesAt(k), c \in IngestConfs, n \in hists }

StoredStores ==
    { {b1} : b1 \in StoredBlocks(1, {0}) }
    \cup { {b1, b2} : b1 \in StoredBlocks(1, {0}), b2 \in StoredBlocks(2, {0, 1}) }

InitStored ==
    /\ blocks \in StoredStores
    /\ nextPk = Cardinality(blocks) + 1
    /\ LocalHeight = 0
    /\ LocalHash = NoHash
    /\ pc = "init"
    /\ chain_height = 0
    /\ chain_hash = NoHash
    /\ height = 0
    /\ submitted = {}
    /\ notifyCreate = [ k \in Pks |-> 0 ]
    /\ notifyMature = [ k \in Pks |-> 0 ]
    /\ hookMature = [ k \in Pks |-> 0 ]
    /\ last = NoOp

SpecStored == InitStored /\ [][Next]_vars

\* C18: a maturity pass that finds a stored Block with conf < CONF_MATURE, a
\* refreshed depth >= CONF_MATURE and no history row deletes it and does
\* nothing else: no hook, no "block matured" notification, no error, and the
\* pass goes on with the store without that Block.
C18_OrphanDeleted ==
    [][ /\ \A b \in blocks : \A cin \in ConfInputs :
             (b.conf < CONF_MATURE /\ b.addr_hist = 0
                /\ cin.rpc_ok /\ cin.confirmations >= CONF_MATURE)
               => LET st == PassState(blocks, hookMature, notifyMature, {}, FALSE)
                  IN  update_confirmations(st, b.pkid, cin)
                        = [ st EXCEPT !.store = blocks \ {b} ]
        /\ ConfPassStep
             => \A b \in blocks :
                  b.addr_hist = 0
                    => /\ b \in blocks' \/ \A c \in blocks' : c.pkid # b.pkid
                       /\ hookMature'[b.pkid] = hookMature[b.pkid]
                       /\ notifyMature'[b.pkid] = notifyMature[b.pkid]
                       /\ b.pkid \notin last'.failed ]_vars

\* C18 witness: the pass deleted the Block of height 1, which had no history
\* row, without hook or notification, went on to the Block of height 2 and
\* promoted it.
C18_Witness ==
    /\ last.op = "conf_all" /\ last.res = "none" /\ last.changed
    /\ hookMature[1] = 0 /\ notifyMature[1] = 0
    /\ \A b \in blocks : b.pkid # 1
    /\ \E b \in blocks :
         /\ b.pkid = 2 /\ b.conf \in RefreshConfs /\ b.conf >= CONF_MATURE
         /\ hookMature[2] = 1 /\ notifyMature[2] = 1

\* C19 (as claimed): every stored Block whose conf is CONF_MATURE or more has
\* had the maturity hook run on its history rows and a "block matured"
\* notification attempted.
C19_MatureWasHooked ==
    \A b \in blocks :
      b.conf >= CONF_MATURE
        => (hookMature[b.pkid] >= 1 /\ notifyMature[b.pkid] >= 1)

\* C20 (as claimed): the store holds at most one Block per height.
C20_OneBlockPerHeight ==
    \A h \in Heights : Cardinality(AtHeight(blocks, h)) <= 1

====
